---- MODULE Spec2Model ----
(***************************************************************************)
(* Model of the Smart To-Do backend (backend/main.py): the natural-language*)
(* task parser, the schedule and deadline suggestion generators, the       *)
(* insight generator and the smart reminders with their store.             *)
(*                                                                         *)
(* A text is a sequence of one-character strings, so that substring tests, *)
(* word boundaries, whitespace splitting and the regular expressions of    *)
(* the code are computed character by character, as Python computes them.  *)
(* A datetime is a record of its calendar fields with a resolution of one  *)
(* minute; isoformat() turns it into the tuple of the fields its string    *)
(* shows.  An absent value (Python None) is the empty tuple.               *)
(***************************************************************************)
EXTENDS Integers, Sequences, FiniteSets, TLC

VARIABLES
    now,        \* the wall clock that datetime.now() reads
    input,      \* the pieces of text the user has put into the input box
    op,         \* the operation of the last call
    arg,        \* the argument of the last call
    called_at,  \* what datetime.now() gave the last call, each value once and in
                \* the order of the reads; None outside a call
    ret,        \* what the last call returned
    frame,      \* the locals of generate_insights while it runs, None otherwise
    scheduled_reminders,  \* the dict of line 951: reminder id -> reminder
    requests,   \* the number of requests to the reminder endpoints so far
    email_service,  \* the global of email_service.py, line 134
    stored_before   \* what scheduled_reminders held when the last call to a reminder
                    \* endpoint came in, None outside such a call

vars == <<now, input, op, arg, called_at, ret, frame, scheduled_reminders, requests,
          email_service, stored_before>>

None == <<>>

Some(x) == <<x>>

(***************************************************************************)
(* Characters and strings                                                  *)
(***************************************************************************)
LowerLetters ==
    <<"a","b","c","d","e","f","g","h","i","j","k","l","m",
      "n","o","p","q","r","s","t","u","v","w","x","y","z">>

UpperLetters ==
    <<"A","B","C","D","E","F","G","H","I","J","K","L","M",
      "N","O","P","Q","R","S","T","U","V","W","X","Y","Z">>

DigitChars == <<"0","1","2","3","4","5","6","7","8","9">>

Range(f) == {f[i] : i \in DOMAIN f}

LowerSet == Range(LowerLetters)

UpperSet == Range(UpperLetters)

DigitSet == Range(DigitChars)

IsLower(c) == c \in LowerSet

IsUpper(c) == c \in UpperSet

IsDigit(c) == c \in DigitSet

\* str.isspace for the whitespace characters of the inputs
IsSpace(c) == c \in {" ", "\t", "\n"}

\* the regular expression class \w
IsWordChar(c) == IsLower(c) \/ IsUpper(c) \/ IsDigit(c) \/ c = "_"

ToLower ==
    [c \in UpperSet |->
        LowerLetters[CHOOSE i \in DOMAIN UpperLetters : UpperLetters[i] = c]]

LowerChar(c) == IF IsUpper(c) THEN ToLower[c] ELSE c

\* str.lower
Lower(s) == [i \in DOMAIN s |-> LowerChar(s[i])]

DigitValues ==
    [c \in DigitSet |-> (CHOOSE i \in DOMAIN DigitChars : DigitChars[i] = c) - 1]

DigitValue(c) == DigitValues[c]

\* int(digits)
RECURSIVE ToInt(_)
ToInt(ds) ==
    IF ds = <<>> THEN 0
    ELSE 10 * ToInt(SubSeq(ds, 1, Len(ds) - 1)) + DigitValue(ds[Len(ds)])

\* s[i:i+n] = sub
StartsAt(sub, s, i) ==
    /\ i + Len(sub) - 1 <= Len(s)
    /\ \A k \in 1..Len(sub) : s[i + k - 1] = sub[k]

\* sub in s
Contains(sub, s) == \E i \in 1..(Len(s) + 1) : StartsAt(sub, s, i)

\* any(word in s for word in words)
ContainsAny(words, s) == \E k \in DOMAIN words : Contains(words[k], s)

\* how many digits follow from position i on, counting at most max: \d{1,max}
RECURSIVE DigitRun(_, _, _)
DigitRun(s, i, max) ==
    IF max = 0 \/ i > Len(s) \/ ~IsDigit(s[i]) THEN 0
    ELSE 1 + DigitRun(s, i + 1, max - 1)

\* how many lower-case letters follow from position i on: [a-z]*
RECURSIVE LetterRun(_, _)
LetterRun(s, i) ==
    IF i > Len(s) \/ ~IsLower(s[i]) THEN 0 ELSE 1 + LetterRun(s, i + 1)

\* how many whitespace characters follow from position i on: \s*
RECURSIVE SpaceRun(_, _)
SpaceRun(s, i) ==
    IF i > Len(s) \/ ~IsSpace(s[i]) THEN 0 ELSE 1 + SpaceRun(s, i + 1)

(***************************************************************************)
(* parse_natural_language: priority                                        *)
(***************************************************************************)
UrgentWords ==
    << <<"u","r","g","e","n","t">>,
       <<"a","s","a","p">>,
       <<"c","r","i","t","i","c","a","l">> >>

HighWords ==
    << <<"h","i","g","h"," ","p","r","i","o","r","i","t","y">>,
       <<"i","m","p","o","r","t","a","n","t">> >>

LowWords ==
    << <<"l","o","w"," ","p","r","i","o","r","i","t","y">>,
       <<"m","i","n","o","r">> >>

\* the low group tested before the others
priority_LowFirst(lower_text) ==
    IF ContainsAny(LowWords, lower_text) THEN "low"
    ELSE IF ContainsAny(UrgentWords, lower_text) THEN "urgent"
    ELSE IF ContainsAny(HighWords, lower_text) THEN "high"
    ELSE "medium"

priority(lower_text) ==
    IF ContainsAny(UrgentWords, lower_text) THEN "urgent"
    ELSE IF ContainsAny(HighWords, lower_text) THEN "high"
    ELSE IF ContainsAny(LowWords, lower_text) THEN "low"
    ELSE "medium"

(***************************************************************************)
(* parse_natural_language: tags                                            *)
(***************************************************************************)
StudyWords ==
    << <<"s","t","u","d","y">>,
       <<"e","x","a","m">>,
       <<"h","o","m","e","w","o","r","k">>,
       <<"a","s","s","i","g","n","m","e","n","t">> >>

WorkWords ==
    << <<"w","o","r","k">>,
       <<"m","e","e","t","i","n","g">>,
       <<"p","r","o","j","e","c","t">>,
       <<"p","r","e","s","e","n","t","a","t","i","o","n">> >>

PersonalWords ==
    << <<"p","e","r","s","o","n","a","l">>,
       <<"h","o","m","e">>,
       <<"f","a","m","i","l","y">> >>

HealthWords ==
    << <<"h","e","a","l","t","h">>,
       <<"e","x","e","r","c","i","s","e">>,
       <<"g","y","m">>,
       <<"w","o","r","k","o","u","t">> >>

\* if any(word in lower_text for word in words): tags.append(tag)
TagIf(words, tag, lower_text) ==
    IF ContainsAny(words, lower_text) THEN <<tag>> ELSE <<>>

\* the tag groups tested as an elif chain: the first group that hits is the only tag
tags_FirstOnly(lower_text) ==
    IF ContainsAny(StudyWords, lower_text) THEN <<"study">>
    ELSE IF ContainsAny(WorkWords, lower_text) THEN <<"work">>
    ELSE IF ContainsAny(PersonalWords, lower_text) THEN <<"personal">>
    ELSE TagIf(HealthWords, "health", lower_text)

tags(lower_text) ==
    TagIf(StudyWords, "study", lower_text)
        \o TagIf(WorkWords, "work", lower_text)
        \o TagIf(PersonalWords, "personal", lower_text)
        \o TagIf(HealthWords, "health", lower_text)

(***************************************************************************)
(* parse_natural_language: title                                           *)
(***************************************************************************)
\* a variant of the list without its first word
remove_words_NoUrgent ==
    << <<"a","s","a","p">>,
       <<"h","i","g","h"," ","p","r","i","o","r","i","t","y">>,
       <<"l","o","w"," ","p","r","i","o","r","i","t","y">>,
       <<"t","o","d","a","y">>,
       <<"t","o","m","o","r","r","o","w">>,
       <<"n","e","x","t"," ","w","e","e","k">>,
       <<"n","e","x","t"," ","m","o","n","t","h">>,
       <<"i","m","p","o","r","t","a","n","t">>,
       <<"c","r","i","t","i","c","a","l">> >>

remove_words ==
    << <<"u","r","g","e","n","t">>,
       <<"a","s","a","p">>,
       <<"h","i","g","h"," ","p","r","i","o","r","i","t","y">>,
       <<"l","o","w"," ","p","r","i","o","r","i","t","y">>,
       <<"t","o","d","a","y">>,
       <<"t","o","m","o","r","r","o","w">>,
       <<"n","e","x","t"," ","w","e","e","k">>,
       <<"n","e","x","t"," ","m","o","n","t","h">>,
       <<"i","m","p","o","r","t","a","n","t">>,
       <<"c","r","i","t","i","c","a","l">> >>

IsWordAt(s, i) == i \in 1..Len(s) /\ IsWordChar(s[i])

\* \b holds between s[i-1] and s[i]
Boundary(s, i) == IsWordAt(s, i - 1) # IsWordAt(s, i)

\* \bword\b matches at position i, ignoring case
MatchWordAt(word, s, i) ==
    /\ i + Len(word) - 1 <= Len(s)
    /\ \A k \in 1..Len(word) : LowerChar(s[i + k - 1]) = word[k]
    /\ Boundary(s, i)
    /\ Boundary(s, i + Len(word))

\* re.sub(r'\b' + word + r'\b', '', s, flags=re.IGNORECASE), from position i on
RECURSIVE SubFrom(_, _, _)
SubFrom(word, s, i) ==
    IF i > Len(s) THEN <<>>
    ELSE IF MatchWordAt(word, s, i) THEN SubFrom(word, s, i + Len(word))
    ELSE <<s[i]>> \o SubFrom(word, s, i + 1)

\* for word in remove_words: title = re.sub(...), for the words from the k-th on
RECURSIVE RemoveWords(_, _, _)
RemoveWords(words, k, title) ==
    IF k > Len(words) THEN title
    ELSE RemoveWords(words, k + 1, SubFrom(words[k], title, 1))

\* title.split(): the maximal runs of non-whitespace characters, from position i on
RECURSIVE Split(_, _, _)
Split(s, i, cur) ==
    IF i > Len(s) THEN (IF cur = <<>> THEN <<>> ELSE <<cur>>)
    ELSE IF IsSpace(s[i])
         THEN (IF cur = <<>> THEN <<>> ELSE <<cur>>) \o Split(s, i + 1, <<>>)
         ELSE Split(s, i + 1, Append(cur, s[i]))

\* ' '.join(words)
RECURSIVE Join(_)
Join(words) ==
    IF words = <<>> THEN <<>>
    ELSE IF Len(words) = 1 THEN words[1]
    ELSE words[1] \o <<" ">> \o Join(Tail(words))

\* the removal without the whitespace normalisation
clean_title_NoJoin(text) == RemoveWords(remove_words, 1, text)

\* lines 127-132: remove the words, then ' '.join(title.split()).strip()
clean_title(text) == Join(Split(RemoveWords(remove_words, 1, text), 1, <<>>))

(***************************************************************************)
(* datetime, timedelta, isoformat                                          *)
(***************************************************************************)
DateTime(y, m, d, h, mi) ==
    [year |-> y, month |-> m, day |-> d, hour |-> h, minute |-> mi]

IsLeap(y) == y % 4 = 0 /\ (y % 100 # 0 \/ y % 400 = 0)

DaysInMonth(y, m) ==
    IF m = 2 THEN (IF IsLeap(y) THEN 29 ELSE 28)
    ELSE IF m \in {4, 6, 9, 11} THEN 30 ELSE 31

\* the number of days before January 1st of year y
DaysBeforeYear(y) ==
    (y - 1) * 365 + ((y - 1) \div 4) - ((y - 1) \div 100) + ((y - 1) \div 400)

RECURSIVE DaysBeforeMonth(_, _)
DaysBeforeMonth(y, m) ==
    IF m = 1 THEN 0 ELSE DaysBeforeMonth(y, m - 1) + DaysInMonth(y, m - 1)

\* date.toordinal
ToOrdinal(y, m, d) == DaysBeforeYear(y) + DaysBeforeMonth(y, m) + d

\* the minutes from 0001-01-01T00:00 to dt
ToMinutes(dt) ==
    (ToOrdinal(dt.year, dt.month, dt.day) - 1) * 1440 + dt.hour * 60 + dt.minute

\* the datetime that lies t minutes after 0001-01-01T00:00
FromMinutes(t) ==
    LET n == (t \div 1440) + 1
        y == CHOOSE yy \in (n \div 366)..((n \div 365) + 1) :
                 DaysBeforeYear(yy) < n /\ n <= DaysBeforeYear(yy + 1)
        r == n - DaysBeforeYear(y)
        m == CHOOSE mm \in 1..12 :
                 DaysBeforeMonth(y, mm) < r /\ r <= DaysBeforeMonth(y, mm) + DaysInMonth(y, mm)
    IN  DateTime(y, m, r - DaysBeforeMonth(y, m), (t % 1440) \div 60, t % 60)

\* dt + timedelta(minutes=k)
AddMinutes(dt, k) == FromMinutes(ToMinutes(dt) + k)

\* dt + timedelta(hours=k)
AddHours(dt, k) == AddMinutes(dt, 60 * k)

\* dt + timedelta(days=k)
AddDays(dt, k) == AddMinutes(dt, 1440 * k)

\* a < b on datetimes
Before(a, b) == ToMinutes(a) < ToMinutes(b)

\* dt.isoformat(): the fields the string shows, in its order
isoformat(dt) == <<dt.year, dt.month, dt.day, dt.hour, dt.minute>>

\* datetime.fromisoformat(s)
fromisoformat(s) == DateTime(s[1], s[2], s[3], s[4], s[5])

\* whether datetime(y, m, d) exists; datetime.replace raises ValueError otherwise
ValidDate(y, m, d) ==
    /\ y \in 1..9999
    /\ m \in 1..12
    /\ d \in 1..DaysInMonth(y, m)

(***************************************************************************)
(* parse_natural_language: the date patterns and dateutil's parser.parse   *)
(***************************************************************************)
CharAt(s, i) == IF i \in 1..Len(s) THEN s[i] ELSE ""

\* the length of the match of \d{1,2}/\d{1,2}/\d{2,4} at position i, 0 if none
SlashLenAt(s, i) ==
    LET a == DigitRun(s, i, 2)
        b == DigitRun(s, i + a + 1, 2)
        c == DigitRun(s, i + a + b + 2, 4)
    IN  IF /\ a >= 1 /\ CharAt(s, i + a) = "/"
           /\ b >= 1 /\ CharAt(s, i + a + 1 + b) = "/"
           /\ c >= 2
        THEN a + b + c + 2 ELSE 0

\* the length of the match of \d{4}-\d{2}-\d{2} at position i, 0 if none
IsoLenAt(s, i) ==
    IF /\ DigitRun(s, i, 4) = 4 /\ CharAt(s, i + 4) = "-"
       /\ DigitRun(s, i + 5, 2) = 2 /\ CharAt(s, i + 7) = "-"
       /\ DigitRun(s, i + 8, 2) = 2
    THEN 10 ELSE 0

MonthNames ==
    << <<"j","a","n","u","a","r","y">>,
       <<"f","e","b","r","u","a","r","y">>,
       <<"m","a","r","c","h">>,
       <<"a","p","r","i","l">>,
       <<"m","a","y">>,
       <<"j","u","n","e">>,
       <<"j","u","l","y">>,
       <<"a","u","g","u","s","t">>,
       <<"s","e","p","t","e","m","b","e","r">>,
       <<"o","c","t","o","b","e","r">>,
       <<"n","o","v","e","m","b","e","r">>,
       <<"d","e","c","e","m","b","e","r">> >>

\* jan|feb|...|dec: the first three letters of the month names
MonthAbbrevs == [k \in 1..12 |-> SubSeq(MonthNames[k], 1, 3)]

\* the length of the match of (jan|...|dec)[a-z]* \d{1,2} at position i, 0 if none
MonthLenAt(s, i) ==
    LET l == 3 + LetterRun(s, i + 3)
        d == DigitRun(s, i + l + 1, 2)
    IN  IF /\ \E k \in 1..12 : StartsAt(MonthAbbrevs[k], s, i)
           /\ CharAt(s, i + l) = " "
           /\ d >= 1
        THEN l + 1 + d ELSE 0

\* the length of the match of date_patterns[k] at position i
PatternLenAt(k, s, i) ==
    IF k = 1 THEN SlashLenAt(s, i)
    ELSE IF k = 2 THEN IsoLenAt(s, i)
    ELSE MonthLenAt(s, i)

\* re.search(date_patterns[k], s).group(): the leftmost match, None when there is none
PatternSearch(k, s) ==
    LET starts == {i \in 1..Len(s) : PatternLenAt(k, s, i) > 0}
    IN  IF starts = {} THEN None
        ELSE LET i == CHOOSE j \in starts : \A j2 \in starts : j <= j2
             IN  SubSeq(s, i, i + PatternLenAt(k, s, i) - 1)

\* dateutil: a year given with two digits is taken in the century around this year
convertyear(y, century_specified, this_year) ==
    IF y >= 100 \/ century_specified THEN y
    ELSE LET yy == y + (this_year \div 100) * 100
         IN  IF yy >= this_year + 50 THEN yy - 100
             ELSE IF yy < this_year - 50 THEN yy + 100
             ELSE yy

ParseOk(y, m, d) == [ok |-> TRUE, value |-> DateTime(y, m, d, 0, 0)]

ParseError == [ok |-> FALSE, value |-> None]

DateOrError(y, m, d) == IF ValidDate(y, m, d) THEN ParseOk(y, m, d) ELSE ParseError

\* parser.parse of "a/b/c": year first when a > 31, day first when a > 12, else month first
ParseSlash(m, today) ==
    LET la == DigitRun(m, 1, 2)
        lb == DigitRun(m, la + 2, 2)
        a  == ToInt(SubSeq(m, 1, la))
        b  == ToInt(SubSeq(m, la + 2, la + 1 + lb))
        cs == SubSeq(m, la + lb + 3, Len(m))
        c  == ToInt(cs)
        century == Len(cs) > 2
    IN  IF a > 31 THEN DateOrError(convertyear(a, century, today.year), b, c)
        ELSE IF a > 12 THEN DateOrError(convertyear(c, century, today.year), b, a)
        ELSE DateOrError(convertyear(c, century, today.year), a, b)

\* parser.parse of "yyyy-mm-dd"
ParseIso(m) ==
    DateOrError(ToInt(SubSeq(m, 1, 4)), ToInt(SubSeq(m, 6, 7)), ToInt(SubSeq(m, 9, 10)))

\* dateutil's month names: the full name, its first three letters, and "sept"
MonthOf(word) ==
    IF word = <<"s","e","p","t">> THEN 9
    ELSE IF \E k \in 1..12 : word \in {MonthNames[k], MonthAbbrevs[k]}
         THEN CHOOSE k \in 1..12 : word \in {MonthNames[k], MonthAbbrevs[k]}
         ELSE 0

\* parser.parse of "<word> <n>": n is the day, or the year when it is above 31; the
\* fields the text does not give come from today
ParseMonth(m, today) ==
    LET l     == LetterRun(m, 1)
        month == MonthOf(SubSeq(m, 1, l))
        n     == ToInt(SubSeq(m, l + 2, Len(m)))
        year  == convertyear(n, FALSE, today.year)
    IN  IF month = 0 THEN ParseError
        ELSE IF n > 31
             THEN DateOrError(year, month,
                              IF today.day > DaysInMonth(year, month)
                              THEN DaysInMonth(year, month) ELSE today.day)
             ELSE DateOrError(today.year, month, n)

\* parser.parse(match.group()) for a match of date_patterns[k]
dateutil_parse(k, m, today) ==
    IF k = 1 THEN ParseSlash(m, today)
    ELSE IF k = 2 THEN ParseIso(m)
    ELSE ParseMonth(m, today)

\* what the except clause of line 112 does with a candidate that does not parse:
\* here the error leaves the function
on_parse_error_Raise(rest) == [raised |-> TRUE, due |-> None]

\* except: pass -- the loop goes on with the next pattern
on_parse_error(rest) == rest

\* lines 106-113: the loop over date_patterns, from the k-th pattern on
RECURSIVE scan_date_patterns(_, _, _)
scan_date_patterns(k, lower_text, today) ==
    IF k > 3 THEN [raised |-> FALSE, due |-> None]
    ELSE LET match == PatternSearch(k, lower_text)
         IN  IF match = None THEN scan_date_patterns(k + 1, lower_text, today)
             ELSE LET parsed == dateutil_parse(k, match, today)
                  IN  IF parsed.ok
                      THEN [raised |-> FALSE, due |-> isoformat(parsed.value)]
                      ELSE on_parse_error(scan_date_patterns(k + 1, lower_text, today))

RelToday == <<"t","o","d","a","y">>

RelTomorrow == <<"t","o","m","o","r","r","o","w">>

RelNextWeek == <<"n","e","x","t"," ","w","e","e","k">>

RelNextMonth == <<"n","e","x","t"," ","m","o","n","t","h">>

\* the date patterns scanned before the relative phrases are looked at
due_date_PatternsFirst(lower_text, today) ==
    LET scan == scan_date_patterns(1, lower_text, today)
    IN  IF scan.due # None \/ scan.raised THEN scan
        ELSE IF Contains(RelToday, lower_text)
             THEN [raised |-> FALSE, due |-> isoformat(today)]
        ELSE IF Contains(RelTomorrow, lower_text)
             THEN [raised |-> FALSE, due |-> isoformat(AddDays(today, 1))]
        ELSE IF Contains(RelNextWeek, lower_text)
             THEN [raised |-> FALSE, due |-> isoformat(AddDays(today, 7))]
        ELSE IF Contains(RelNextMonth, lower_text)
             THEN [raised |-> FALSE, due |-> isoformat(AddDays(today, 30))]
        ELSE scan

\* lines 87-113
due_date(lower_text, today) ==
    IF Contains(RelToday, lower_text)
    THEN [raised |-> FALSE, due |-> isoformat(today)]
    ELSE IF Contains(RelTomorrow, lower_text)
         THEN [raised |-> FALSE, due |-> isoformat(AddDays(today, 1))]
    ELSE IF Contains(RelNextWeek, lower_text)
         THEN [raised |-> FALSE, due |-> isoformat(AddDays(today, 7))]
    ELSE IF Contains(RelNextMonth, lower_text)
         THEN [raised |-> FALSE, due |-> isoformat(AddDays(today, 30))]
    ELSE scan_date_patterns(1, lower_text, today)

(***************************************************************************)
(* parse_natural_language: estimated time                                  *)
(***************************************************************************)
UnitHour == <<"h","o","u","r">>

UnitHr == <<"h","r">>

UnitMinute == <<"m","i","n","u","t","e">>

UnitMin == <<"m","i","n">>

\* the unit that (hour|hr|minute|min) matches at position i, "" if none
UnitAt(s, i) ==
    IF StartsAt(UnitHour, s, i) THEN "hour"
    ELSE IF StartsAt(UnitHr, s, i) THEN "hr"
    ELSE IF StartsAt(UnitMinute, s, i) THEN "minute"
    ELSE IF StartsAt(UnitMin, s, i) THEN "min"
    ELSE ""

\* whether (\d+)\s*(hour|hr|minute|min)s? matches at position i
DurationAt(s, i) ==
    LET d == DigitRun(s, i, Len(s))
    IN  d >= 1 /\ UnitAt(s, i + d + SpaceRun(s, i + d)) # ""

\* lines 116-124
estimated_time(lower_text) ==
    LET starts == {i \in 1..Len(lower_text) : DurationAt(lower_text, i)}
    IN  IF starts = {} THEN None
        ELSE LET i     == CHOOSE j \in starts : \A j2 \in starts : j <= j2
                 d     == DigitRun(lower_text, i, Len(lower_text))
                 value == ToInt(SubSeq(lower_text, i, i + d - 1))
                 unit  == UnitAt(lower_text, i + d + SpaceRun(lower_text, i + d))
             IN  IF unit \in {"hour", "hr"} THEN Some(value * 60) ELSE Some(value)

(***************************************************************************)
(* parse_natural_language and the endpoint /api/tasks/parse                *)
(***************************************************************************)
\* title or text
title_or_text(title, text) == IF title = <<>> THEN text ELSE title

\* lines 60-142; the value is the returned dict, or "raised" when an exception leaves
parse_natural_language(text, today) ==
    LET lower_text == Lower(text)
        date       == due_date(lower_text, today)
    IN  IF date.raised THEN [raised |-> TRUE]
        ELSE [raised        |-> FALSE,
              title         |-> title_or_text(clean_title(text), text),
              priority      |-> priority(lower_text),
              tags          |-> tags(lower_text),
              dueDate       |-> date.due,
              estimatedTime |-> estimated_time(lower_text),
              status        |-> "pending",
              aiSuggested   |-> TRUE]

\* lines 243-250: an exception of the parser becomes a 400 answer
parse_task(text, today) ==
    LET parsed == parse_natural_language(text, today)
    IN  IF parsed.raised THEN [code |-> 400, body |-> None]
        ELSE [code |-> 200, body |-> parsed]

(***************************************************************************)
(* get_schedule_suggestions                                                *)
(***************************************************************************)
Suggestion(t, r, sc) == [time |-> isoformat(t), reason |-> r, score |-> sc]

\* lines 154-172: the candidate of the priority
priority_candidate(p, t) ==
    IF p = "urgent"
    THEN Suggestion(t, "High priority task - schedule immediately", 100)
    ELSE IF p = "high"
         THEN Suggestion(AddHours(t, 2), "High priority - schedule within 2 hours", 90)
         ELSE Suggestion(AddDays(t, 1), "Normal priority - schedule for tomorrow", 70)

\* now.replace(hour=h, minute=0, second=0, microsecond=0)
replace_hour(t, h) == DateTime(t.year, t.month, t.day, h, 0)

\* the slot is never moved to the next day
slot_NoRollover(t, h) == replace_hour(t, h)

\* lines 177-179 and 188-190: today at h:00, tomorrow when that is before now
slot(t, h) ==
    LET morning == replace_hour(t, h)
    IN  IF Before(morning, t) THEN AddDays(morning, 1) ELSE morning

\* lines 175-195: the candidates of the tags
tag_candidates(task_tags, t) ==
    (IF "study" \in Range(task_tags)
     THEN <<Suggestion(slot(t, 9),
                       "Study tasks are best done in the morning when mind is fresh", 85)>>
     ELSE <<>>)
    \o
    (IF "work" \in Range(task_tags)
     THEN <<Suggestion(slot(t, 10),
                       "Work tasks fit best during standard working hours", 80)>>
     ELSE <<>>)

\* x put into a list sorted by descending score, behind the entries of its score
RECURSIVE InsertByScore(_, _)
InsertByScore(sorted, x) ==
    IF sorted = <<>> THEN <<x>>
    ELSE IF sorted[1].score >= x.score
         THEN <<sorted[1]>> \o InsertByScore(Tail(sorted), x)
         ELSE <<x>> \o sorted

\* the candidates left in the order of their generation
sort_by_score_Unsorted(l) == l

\* suggestions.sort(key=lambda x: x["score"], reverse=True): a stable sort
RECURSIVE sort_by_score(_)
sort_by_score(l) ==
    IF l = <<>> THEN <<>>
    ELSE InsertByScore(sort_by_score(SubSeq(l, 1, Len(l) - 1)), l[Len(l)])

\* l[:n]
Take(l, n) == SubSeq(l, 1, IF Len(l) < n THEN Len(l) ELSE n)

\* lines 146-199
get_schedule_suggestions(task, t) ==
    Take(sort_by_score(<<priority_candidate(task.priority, t)>>
                           \o tag_candidates(task.tags, t)), 3)

(***************************************************************************)
(* get_deadline_suggestions                                                *)
(***************************************************************************)
\* task_data.get(key, default)
Get(d, key, default) == IF key \in DOMAIN d THEN d[key] ELSE default

\* a reason is the sequence of the parts it is concatenated from
Deadline(t, l, r, c) ==
    [date |-> isoformat(t), label |-> l, reason |-> <<r>>, confidence |-> c]

\* lines 386-438
deadline_table(p, t) ==
    IF p = "urgent"
    THEN <<Deadline(t, "Today", "Urgent priority - immediate attention required", 95),
           Deadline(AddHours(t, 4), "In 4 hours", "Quick turnaround for urgent tasks", 90)>>
    ELSE IF p = "high"
    THEN <<Deadline(AddDays(t, 1), "Tomorrow", "High priority - schedule within 24 hours", 90),
           Deadline(AddDays(t, 2), "In 2 days", "Allows time for preparation", 85)>>
    ELSE IF p = "medium"
    THEN <<Deadline(AddDays(t, 3), "In 3 days", "Balanced timeframe for medium priority", 85),
           Deadline(AddDays(t, 7), "Next week", "Comfortable timeline for planning", 80)>>
    ELSE <<Deadline(AddDays(t, 7), "Next week", "Low priority - can be scheduled flexibly", 75),
           Deadline(AddDays(t, 14), "In 2 weeks", "Extended timeline for low priority tasks", 70)>>

ComplexSuffix == " (Complex task requires extra time)"

\* a variant that appends the suffix and leaves the date where it is
push_deadline_SuffixOnly(sg) ==
    [sg EXCEPT !.reason = Append(sg.reason, ComplexSuffix)]

\* lines 442-446: the reason gets the suffix, the date goes through fromisoformat
\* and isoformat
push_deadline(sg) ==
    [sg EXCEPT !.reason = Append(sg.reason, ComplexSuffix),
               !.date   = isoformat(AddDays(fromisoformat(sg.date), 2))]

\* lines 375-448; estimated_time > 240 raises TypeError when estimated_time is None,
\* and the framework answers 500
get_deadline_suggestions(task_data, t) ==
    LET p   == Get(task_data, "priority", "medium")
        est == Get(task_data, "estimatedTime", Some(60))
        suggestions == deadline_table(p, t)
    IN  IF est = None THEN [code |-> 500, body |-> <<>>]
        ELSE IF est[1] > 240
             THEN [code |-> 200,
                   body |-> [i \in DOMAIN suggestions |-> push_deadline(suggestions[i])]]
             ELSE [code |-> 200, body |-> suggestions]

(***************************************************************************)
(* generate_insights                                                       *)
(***************************************************************************)
\* the fields of a Task that generate_insights reads
Task(status, dueDate) == [status |-> status, dueDate |-> dueDate]

\* the truth value of an optional string: None and the empty string are false
Truthy(v) == v # <<>>

\* str(n) as an f-string writes it
RECURSIVE Str(_)
Str(n) ==
    IF n < 0 THEN <<"-">> \o Str(-n)
    ELSE IF n < 10 THEN <<DigitChars[n + 1]>>
    ELSE Str(n \div 10) \o <<DigitChars[(n % 10) + 1]>>

\* a message is the sequence of the parts the f-string puts together
AIInsight(type, message) ==
    [type |-> type, message |-> message, relatedTaskId |-> None]

\* the condition of the comprehension of line 211 for one task; reading is what
\* datetime.now() gives when this task is looked at
is_overdue(t, reading) ==
    /\ Truthy(t.dueDate)
    /\ Before(fromisoformat(t.dueDate), reading)
    /\ t.status # "completed"

\* the frame of a call when the comprehension of line 211 starts
first_frame == [i |-> 1, overdue |-> <<>>]

\* one round of the comprehension of line 211
overdue_step(fr, tasks, reading) ==
    [i       |-> fr.i + 1,
     overdue |-> IF is_overdue(tasks[fr.i], reading)
                 THEN Append(fr.overdue, tasks[fr.i]) ELSE fr.overdue]

\* lines 212-216
overdue_warning(overdue) ==
    IF overdue # <<>>
    THEN <<AIInsight("warning",
                     <<"You have ", Str(Len(overdue)),
                       " overdue task(s). Consider rescheduling or prioritizing them.">>)>>
    ELSE <<>>

\* line 219
no_dates(tasks) ==
    SelectSeq(tasks, LAMBDA t : ~Truthy(t.dueDate) /\ t.status # "completed")

\* a variant that suggests from 5 tasks on
missing_dates_suggestion_FromFive(tasks) ==
    IF Len(no_dates(tasks)) >= 5
    THEN <<AIInsight("suggestion",
                     <<Str(Len(no_dates(tasks))),
                       " tasks don't have due dates. Adding deadlines can improve completion rates.">>)>>
    ELSE <<>>

\* lines 220-224
missing_dates_suggestion(tasks) ==
    IF Len(no_dates(tasks)) > 5
    THEN <<AIInsight("suggestion",
                     <<Str(Len(no_dates(tasks))),
                       " tasks don't have due dates. Adding deadlines can improve completion rates.">>)>>
    ELSE <<>>

\* line 227
completed(tasks) == Len(SelectSeq(tasks, LAMBDA t : t.status = "completed"))

\* a / b of two integers: ZeroDivisionError when b is 0, else the quotient, kept
\* as the fraction it is the nearest double of
TrueDiv(a, b) == [raised |-> b = 0, num |-> a, den |-> b]

\* a variant that also lets the ratio 0.8 through
above_08_OrEqual(q) == 5 * q.num >= 4 * q.den

\* q > 0.8 for a quotient q of task counts: the double nearest to num/den is greater
\* than the double 0.8 exactly when num/den > 4/5 (two different fractions of
\* counts are much farther apart than two neighbouring doubles)
above_08(q) == 5 * q.num > 4 * q.den

\* int(q * 100) for a quotient q above 0.8 (the doubles give the same as the exact
\* arithmetic there)
int_percent(q) == (q.num * 100) \div q.den

\* a variant without the test of the collection before the division
completion_tip_NoGuard(tasks) ==
    LET q == TrueDiv(completed(tasks), Len(tasks))
    IN  IF q.raised THEN [raised |-> TRUE, insights |-> <<>>]
        ELSE IF above_08(q)
        THEN [raised |-> FALSE,
              insights |-> <<AIInsight("tip",
                               <<"Great job! You've completed ", Str(int_percent(q)),
                                 "% of your tasks. Keep up the momentum!">>)>>]
        ELSE [raised |-> FALSE, insights |-> <<>>]

\* lines 228-232; `tasks and ...` does not divide when the collection is empty
completion_tip(tasks) ==
    IF tasks = <<>> THEN [raised |-> FALSE, insights |-> <<>>]
    ELSE LET q == TrueDiv(completed(tasks), Len(tasks))
         IN  IF q.raised THEN [raised |-> TRUE, insights |-> <<>>]
             ELSE IF above_08(q)
             THEN [raised |-> FALSE,
                   insights |-> <<AIInsight("tip",
                                    <<"Great job! You've completed ", Str(int_percent(q)),
                                      "% of your tasks. Keep up the momentum!">>)>>]
             ELSE [raised |-> FALSE, insights |-> <<>>]

\* lines 212-234, after the comprehension of line 211 has given overdue
finish_insights(tasks, overdue) ==
    LET tip == completion_tip(tasks)
    IN  IF tip.raised THEN [code |-> 500, body |-> <<>>]
        ELSE [code |-> 200,
              body |-> overdue_warning(overdue) \o missing_dates_suggestion(tasks)
                          \o tip.insights]

(***************************************************************************)
(* The reminders                                                           *)
(***************************************************************************)
\* a variant whose table has no entry for a priority it does not know
calculate_smart_reminder_minutes_KeyError(p) ==
    IF p = "urgent" THEN <<5, 15, 60>>
    ELSE IF p = "high" THEN <<15, 60, 240>>
    ELSE IF p = "medium" THEN <<30, 120, 1440>>
    ELSE IF p = "low" THEN <<60, 1440>>
    ELSE <<>>

\* lines 971-979: reminder_rules.get(priority, reminder_rules["medium"])
calculate_smart_reminder_minutes(p) ==
    IF p = "urgent" THEN <<5, 15, 60>>
    ELSE IF p = "high" THEN <<15, 60, 240>>
    ELSE IF p = "low" THEN <<60, 1440>>
    ELSE <<30, 120, 1440>>

\* lines 953-959
ReminderRequest(taskId, taskTitle, dueDate, p, notificationType, minutesBefore) ==
    [taskId |-> taskId, taskTitle |-> taskTitle, dueDate |-> dueDate, priority |-> p,
     notificationType |-> notificationType, minutesBefore |-> minutesBefore]

\* lines 961-969, as reminder.dict() gives it
ReminderModel(id, taskId, taskTitle, reminderTime, notificationType, createdAt) ==
    [id |-> id, taskId |-> taskId, taskTitle |-> taskTitle,
     reminderTime |-> reminderTime, notificationType |-> notificationType,
     sent |-> FALSE, sentAt |-> None, createdAt |-> createdAt]

\* whether datetime.fromisoformat(s) gives a datetime; it raises ValueError otherwise
IsIsoFormat(s) ==
    /\ Len(s) = 5
    /\ s[1] \in 1..9999 /\ s[2] \in 1..12 /\ s[3] \in 1..DaysInMonth(s[1], s[2])
    /\ s[4] \in 0..23 /\ s[5] \in 0..59

\* whether dt - timedelta(minutes=k) exists; it raises OverflowError before
\* 0001-01-01T00:00
CanSubtract(dt, k) == ToMinutes(dt) - k >= 0

\* a variant that leaves the offset out of the id
reminder_id_TaskOnly(taskId, minutes) == taskId

\* f"{taskId}-{minutes}"
reminder_id(taskId, minutes) == taskId \o <<"-">> \o Str(minutes)

\* a variant that keeps what the dict has under the key
Put_KeepOld(d, key, value) ==
    [k \in DOMAIN d \cup {key} |-> IF k \in DOMAIN d THEN d[k] ELSE value]

\* d[key] = value on a dict
Put(d, key, value) ==
    [k \in DOMAIN d \cup {key} |-> IF k = key THEN value ELSE d[k]]

\* the loop of lines 1019-1036 over the offsets that are left; an exception leaves
\* the loop with what was stored before it
RECURSIVE smart_loop(_, _, _, _, _)
smart_loop(request, offsets, store, scheduled, t) ==
    IF offsets = <<>> THEN [raised |-> FALSE, store |-> store, scheduled |-> scheduled]
    ELSE IF ~IsIsoFormat(request.dueDate)
            \/ ~CanSubtract(fromisoformat(request.dueDate), Head(offsets))
    THEN [raised |-> TRUE, store |-> store, scheduled |-> scheduled]
    ELSE LET reminder ==
                 ReminderModel(reminder_id(request.taskId, Head(offsets)),
                               request.taskId, request.taskTitle,
                               isoformat(AddMinutes(fromisoformat(request.dueDate),
                                                    0 - Head(offsets))),
                               request.notificationType, isoformat(t))
         IN  smart_loop(request, Tail(offsets), Put(store, reminder.id, reminder),
                        Append(scheduled, reminder), t)

\* lines 1012-1044: the answer and the store after the call
schedule_smart_reminders(request, store, t) ==
    LET done == smart_loop(request, calculate_smart_reminder_minutes(request.priority),
                           store, <<>>, t)
    IN  IF done.raised
        THEN [store |-> done.store, code |-> 400, body |-> <<>>]
        ELSE [store |-> done.store, code |-> 200,
              body |-> [success |-> TRUE, reminders |-> done.scheduled,
                        count |-> Len(done.scheduled)]]

\* lines 981-1009: the answer and the store after the call
schedule_reminder(request, store, t) ==
    IF ~IsIsoFormat(request.dueDate)
       \/ ~CanSubtract(fromisoformat(request.dueDate), request.minutesBefore)
    THEN [store |-> store, code |-> 400, body |-> <<>>]
    ELSE LET reminder_time ==
                 isoformat(AddMinutes(fromisoformat(request.dueDate),
                                      0 - request.minutesBefore))
             reminder ==
                 ReminderModel(reminder_id(request.taskId, request.minutesBefore),
                               request.taskId, request.taskTitle, reminder_time,
                               request.notificationType, isoformat(t))
         IN  [store |-> Put(store, reminder.id, reminder), code |-> 200,
              body |-> [success |-> TRUE, reminder |-> reminder,
                        reminderTime |-> reminder_time]]

\* lines 1050-1053: the reminders of a task
task_reminders(store, task_id) ==
    {store[id] : id \in {k \in DOMAIN store : store[k].taskId = task_id}}

\* lines 1047-1062; the order of the list (by reminder time, equal times in the
\* order of the dict) is left out, the reminders are given as a set
get_task_reminders(task_id, store) ==
    [code |-> 200,
     body |-> [taskId |-> task_id, reminders |-> task_reminders(store, task_id),
               count |-> Cardinality(task_reminders(store, task_id))]]

\* del d[key]
Remove(d, keys) == [k \in DOMAIN d \ keys |-> d[k]]

\* lines 1087-1097
delete_reminder(reminder_id_, store) ==
    IF reminder_id_ \in DOMAIN store
    THEN [store |-> Remove(store, {reminder_id_}), code |-> 200,
          body |-> [success |-> TRUE]]
    ELSE [store |-> store, code |-> 404, body |-> <<>>]

\* a variant that takes the reminders of every task
reminders_to_delete_All(store, task_id) == DOMAIN store

\* lines 1103-1106
reminders_to_delete(store, task_id) ==
    {r_id \in DOMAIN store : store[r_id].taskId = task_id}

\* lines 1100-1115
delete_task_reminders(task_id, store) ==
    [store |-> Remove(store, reminders_to_delete(store, task_id)), code |-> 200,
     body |-> [success |-> TRUE,
               deleted_count |-> Cardinality(reminders_to_delete(store, task_id))]]

\* r['sent'] = True; r['sentAt'] = datetime.now().isoformat()
Sent(r, t) == [r EXCEPT !.sent = TRUE, !.sentAt = isoformat(t)]

\* lines 1118-1130
mark_reminder_sent(reminder_id_, store, t) ==
    IF reminder_id_ \in DOMAIN store
    THEN LET after == [store EXCEPT ![reminder_id_] = Sent(store[reminder_id_], t)]
         IN  [store |-> after, code |-> 200,
              body |-> [success |-> TRUE, reminder |-> after[reminder_id_]]]
    ELSE [store |-> store, code |-> 404, body |-> <<>>]

\* a variant that looks at the task only
is_email_reminder_AnyType(r, task_id) == r.taskId = task_id

\* line 1152
is_email_reminder(r, task_id) ==
    r.taskId = task_id /\ r.notificationType \in {"email", "all"}

\* lines 1133-1164; service is what get_email_service() gives, success what
\* send_task_reminder returns (email_service.py 91-121: True, or False when
\* anything about the SMTP session fails).  The HTTPException with 500 of line 1162
\* is caught by line 1163 and answered as 400.
send_reminder_email(task_id, store, service, success, t) ==
    IF service = None THEN [store |-> store, code |-> 400, body |-> <<>>]
    ELSE IF ~success THEN [store |-> store, code |-> 400, body |-> <<>>]
    ELSE [store |-> [id \in DOMAIN store |->
                        IF is_email_reminder(store[id], task_id)
                        THEN Sent(store[id], t) ELSE store[id]],
          code |-> 200, body |-> [success |-> TRUE]]

(***************************************************************************)
(* The state machine                                                       *)
(***************************************************************************)
MaxFrags == 2

MaxTicks == 4

MaxTags == 2

MaxTasks == 10

MaxCallTicks == 1

MaxRequests == 4

\* the clock when the server starts: 2024-12-31T08:30
Epoch == DateTime(2024, 12, 31, 8, 30)

\* the pieces the input texts are put together from; put side by side they also give
\* keywords inside larger words and runs of whitespace
Fragments ==
    { <<"u","r","g","e","n","t">>,
      <<"A","S","A","P">>,
      <<"h","i","g","h"," ","p","r","i","o","r","i","t","y">>,
      <<"n","e","x","t"," ","I","m","p","o","r","t","a","n","t"," ","w","e","e","k">>,
      <<"l","o","w"," ","p","r","i","o","r","i","t","y">>,
      <<"m","i","n","o","r">>,
      <<"h","o","m","e","w","o","r","k">>,
      <<"m","e","e","t","i","n","g">>,
      <<"g","y","m">>,
      <<"t","o","d","a","y">>,
      <<"T","o","m","o","r","r","o","w">>,
      <<"n","e","x","t"," ","w","e","e","k">>,
      <<"n","e","x","t"," ","m","o","n","t","h">>,
      <<"3","/","1","5","/","2","4">>,
      <<"1","3","/","1","3","/","2","4"," ","2","0","2","4","-","0","2","-","3","0"," ">>,
      <<"2","0","2","5","-","0","3","-","0","5">>,
      <<"f","e","b"," ","2","9">>,
      <<"m","a","r","k"," ","1","2">>,
      <<"2"," ","h","o","u","r","s">>,
      <<"x">>,
      <<" ">>,
      <<"\t"," ","B","u","y"," "," ","m","i","l","k">> }

RECURSIVE Flatten(_)
Flatten(pieces) ==
    IF pieces = <<>> THEN <<>> ELSE pieces[1] \o Flatten(Tail(pieces))

PriorityValues == {"urgent", "high", "medium", "low", "someday"}

TagNames == {"study", "work", "personal", "health"}

TagLists == UNION {[1..n -> TagNames] : n \in 0..MaxTags}

DurationValues == {None, Some(0), Some(60), Some(240), Some(241), Some(600)}

\* a request body with the keys that are given
TaskData(hasPriority, p, hasTime, e) ==
    [k \in (IF hasPriority THEN {"priority"} ELSE {})
             \cup (IF hasTime THEN {"estimatedTime"} ELSE {})
        |-> IF k = "priority" THEN p ELSE e]

TaskDatas ==
    {TaskData(hp, p, ht, e) : hp \in BOOLEAN, p \in PriorityValues,
                              ht \in BOOLEAN, e \in DurationValues}

\* the tasks a collection is made of: completed or not, without due date, due
\* the day before the server starts, due at the instant it starts
TaskKinds ==
    << Task("completed", isoformat(AddDays(Epoch, 0 - 1))),
       Task("completed", None),
       Task("pending", None),
       Task("pending", isoformat(AddDays(Epoch, 0 - 1))),
       Task("in_progress", isoformat(Epoch)) >>

TaskIds == { <<"t","1">>, <<"t","2">> }

\* a due date of every day, one so early that not every offset can be subtracted
\* from it, and one that is no date (February 30th)
DueDates ==
    { isoformat(AddDays(Epoch, 1)), <<1, 1, 1, 0, 30>>, <<2025, 2, 30, 9, 0>> }

ReminderRequests ==
    { ReminderRequest(id, "Write report", d, p, "browser", 15) :
          id \in TaskIds, d \in DueDates, p \in PriorityValues }

\* urgent requests (offsets 5, 15 and 60), with a due date of every day and with one
\* so early that the third offset cannot be subtracted from it
SmartRequests ==
    { ReminderRequest(id, "Write report", d, "urgent", "browser", 15) :
          id \in TaskIds, d \in {isoformat(AddDays(Epoch, 1)), <<1, 1, 1, 0, 30>>} }

\* requests of one offset, with a due date and with none that can be read, for
\* every kind of notification the email endpoint tells apart
SingleRequests ==
    { ReminderRequest(id, "Write report", d, "medium", nt, 15) :
          id \in TaskIds, d \in {isoformat(AddDays(Epoch, 1)), <<2025, 2, 30, 9, 0>>},
          nt \in {"email", "all", "browser"} }

\* ids the clients ask about: of both tasks, with an offset both ways of scheduling
\* use and one only the smart way uses
ReminderIds == { reminder_id(id, m) : id \in TaskIds, m \in {15, 60} }

Init ==
    /\ now = Epoch
    /\ input = <<>>
    /\ op = "idle"
    /\ arg = <<>>
    /\ called_at = None
    /\ ret = None
    /\ frame = None
    /\ scheduled_reminders = <<>>
    /\ requests = 0
    /\ email_service = None
    /\ stored_before = None

\* half an hour passes
Tick ==
    /\ ToMinutes(now) < ToMinutes(Epoch) + 30 * MaxTicks
    /\ now' = AddMinutes(now, 30)
    /\ UNCHANGED <<input, op, arg, called_at, ret, frame, scheduled_reminders, requests,
                 email_service, stored_before>>

\* the user adds a piece to the text of the input box
Type(f) ==
    /\ op \in {"idle", "type", "parse"}
    /\ Len(input) < MaxFrags
    /\ input' = Append(input, f)
    /\ op' = "type"
    /\ arg' = <<>>
    /\ called_at' = None
    /\ ret' = None
    /\ UNCHANGED <<now, frame, scheduled_reminders, requests,
                 email_service, stored_before>>

\* POST /api/tasks/parse with the text of the input box; line 89 reads the clock
ParseTask ==
    /\ op \in {"idle", "type", "parse"}
    /\ op' = "parse"
    /\ arg' = Flatten(input)
    /\ called_at' = Some(now)
    /\ ret' = parse_task(arg', now)
    /\ UNCHANGED <<now, input, frame, scheduled_reminders, requests,
                 email_service, stored_before>>

\* get_schedule_suggestions(task); line 152 reads the clock
ScheduleSuggestions(p, tg) ==
    /\ op = "idle"
    /\ input = <<>>
    /\ op' = "schedule"
    /\ arg' = [priority |-> p, tags |-> tg]
    /\ called_at' = Some(now)
    /\ ret' = [code |-> 200, body |-> get_schedule_suggestions(arg', now)]
    /\ UNCHANGED <<now, input, frame, scheduled_reminders, requests,
                 email_service, stored_before>>

\* POST /api/tasks/deadline-suggestions; line 383 reads the clock
DeadlineSuggestions(task_data) ==
    /\ op = "idle"
    /\ input = <<>>
    /\ op' = "deadline"
    /\ arg' = task_data
    /\ called_at' = Some(now)
    /\ ret' = get_deadline_suggestions(task_data, now)
    /\ UNCHANGED <<now, input, frame, scheduled_reminders, requests,
                 email_service, stored_before>>

\* the caller puts one more task into the collection it will ask insights for;
\* the tasks come in the order of TaskKinds
AddTask(k) ==
    /\ op \in {"idle", "collect"}
    /\ input = <<>>
    /\ Len(arg) < MaxTasks
    /\ IF arg = <<>> THEN TRUE
       ELSE \A j \in DOMAIN TaskKinds : j > k => arg[Len(arg)] # TaskKinds[j]
    /\ op' = "collect"
    /\ arg' = Append(arg, TaskKinds[k])
    /\ UNCHANGED <<now, input, called_at, ret, frame, scheduled_reminders, requests,
                 email_service, stored_before>>

\* generate_insights(tasks) is entered, lines 203-209
CallInsights ==
    /\ op \in {"idle", "collect"}
    /\ input = <<>>
    /\ op' = "overdue"
    /\ frame' = first_frame
    /\ called_at' = <<>>
    /\ UNCHANGED <<now, input, arg, ret, scheduled_reminders, requests,
                 email_service, stored_before>>

\* one round of the comprehension of line 211: datetime.now() is read for a task
\* that has a due date; passed is the number of half hours that went by since
\* the round before (the clock is looked at nowhere else in the call)
OverdueStep(passed) ==
    /\ op = "overdue"
    /\ frame.i <= Len(arg)
    /\ passed > 0 => Truthy(arg[frame.i].dueDate)
    /\ ToMinutes(now) + 30 * passed <= ToMinutes(Epoch) + 30 * MaxCallTicks
    /\ now' = IF passed = 0 THEN now ELSE AddMinutes(now, 30 * passed)
    /\ frame' = overdue_step(frame, arg, now')
    /\ called_at' = IF Truthy(arg[frame.i].dueDate)
                       /\ (called_at = <<>> \/ called_at[Len(called_at)] # now')
                    THEN Append(called_at, now') ELSE called_at
    /\ UNCHANGED <<input, op, arg, ret, scheduled_reminders, requests,
                 email_service, stored_before>>

\* lines 212-234: the comprehension is through, the insights are put together
FinishInsights ==
    /\ op = "overdue"
    /\ frame.i > Len(arg)
    /\ op' = "insights"
    /\ ret' = finish_insights(arg, frame.overdue)
    /\ frame' = None
    /\ UNCHANGED <<now, input, arg, called_at, scheduled_reminders, requests,
                 email_service, stored_before>>

\* calculate_smart_reminder_minutes(p)
ReminderMinutes(p) ==
    /\ op = "idle"
    /\ input = <<>>
    /\ op' = "reminder_minutes"
    /\ arg' = p
    /\ called_at' = None
    /\ ret' = [code |-> 200, body |-> calculate_smart_reminder_minutes(p)]
    /\ UNCHANGED <<now, input, frame, scheduled_reminders, requests,
                 email_service, stored_before>>

\* POST /api/reminders/schedule-smart
ScheduleSmart(request) ==
    /\ op = "idle"
    /\ input = <<>>
    /\ requests < MaxRequests
    /\ LET done == schedule_smart_reminders(request, scheduled_reminders, now)
       IN  /\ scheduled_reminders' = done.store
           /\ ret' = [code |-> done.code, body |-> done.body]
    /\ op' = "schedule_smart"
    /\ arg' = request
    /\ called_at' = Some(now)
    /\ requests' = requests + 1
    /\ stored_before' = Some(scheduled_reminders)
    /\ UNCHANGED <<now, input, frame, email_service>>

\* POST /api/reminders/schedule
ScheduleReminder(request) ==
    /\ op = "idle"
    /\ input = <<>>
    /\ requests < MaxRequests
    /\ LET done == schedule_reminder(request, scheduled_reminders, now)
       IN  /\ scheduled_reminders' = done.store
           /\ ret' = [code |-> done.code, body |-> done.body]
    /\ op' = "schedule_reminder"
    /\ arg' = request
    /\ called_at' = Some(now)
    /\ requests' = requests + 1
    /\ stored_before' = Some(scheduled_reminders)
    /\ UNCHANGED <<now, input, frame, email_service>>

\* GET /api/reminders/task/{task_id}
GetTaskReminders(task_id) ==
    /\ op = "idle"
    /\ input = <<>>
    /\ op' = "get_task_reminders"
    /\ arg' = task_id
    /\ called_at' = None
    /\ ret' = get_task_reminders(task_id, scheduled_reminders)
    /\ stored_before' = Some(scheduled_reminders)
    /\ UNCHANGED <<now, input, frame, scheduled_reminders, requests, email_service>>

\* DELETE /api/reminders/{reminder_id}
DeleteReminder(id) ==
    /\ op = "idle"
    /\ input = <<>>
    /\ requests < MaxRequests
    /\ LET done == delete_reminder(id, scheduled_reminders)
       IN  /\ scheduled_reminders' = done.store
           /\ ret' = [code |-> done.code, body |-> done.body]
    /\ op' = "delete_reminder"
    /\ arg' = id
    /\ called_at' = None
    /\ requests' = requests + 1
    /\ stored_before' = Some(scheduled_reminders)
    /\ UNCHANGED <<now, input, frame, email_service>>

\* DELETE /api/reminders/task/{task_id}
DeleteTaskReminders(task_id) ==
    /\ op = "idle"
    /\ input = <<>>
    /\ requests < MaxRequests
    /\ LET done == delete_task_reminders(task_id, scheduled_reminders)
       IN  /\ scheduled_reminders' = done.store
           /\ ret' = [code |-> done.code, body |-> done.body]
    /\ op' = "delete_task_reminders"
    /\ arg' = task_id
    /\ called_at' = None
    /\ requests' = requests + 1
    /\ stored_before' = Some(scheduled_reminders)
    /\ UNCHANGED <<now, input, frame, email_service>>

\* POST /api/reminders/{reminder_id}/mark-sent
MarkReminderSent(id) ==
    /\ op = "idle"
    /\ input = <<>>
    /\ requests < MaxRequests
    /\ LET done == mark_reminder_sent(id, scheduled_reminders, now)
       IN  /\ scheduled_reminders' = done.store
           /\ ret' = [code |-> done.code, body |-> done.body]
    /\ op' = "mark_reminder_sent"
    /\ arg' = id
    /\ called_at' = Some(now)
    /\ requests' = requests + 1
    /\ stored_before' = Some(scheduled_reminders)
    /\ UNCHANGED <<now, input, frame, email_service>>

\* POST /api/email/configure with a configuration the model accepts (lines 806-826,
\* email_service.py 136-144)
ConfigureEmail ==
    /\ op = "idle"
    /\ input = <<>>
    /\ op' = "configure_email"
    /\ arg' = <<>>
    /\ called_at' = None
    /\ ret' = [code |-> 200, body |-> [success |-> TRUE]]
    /\ email_service' = Some("EmailService")
    /\ UNCHANGED <<now, input, frame, scheduled_reminders, requests, stored_before>>

\* POST /api/reminders/send-email for a task; success is what the SMTP session
\* gives, and there is no session without a service
SendReminderEmail(task_id, success) ==
    /\ op = "idle"
    /\ input = <<>>
    /\ requests < MaxRequests
    /\ email_service = None => ~success
    /\ LET done == send_reminder_email(task_id, scheduled_reminders, email_service,
                                       success, now)
       IN  /\ scheduled_reminders' = done.store
           /\ ret' = [code |-> done.code, body |-> done.body]
    /\ op' = "send_reminder_email"
    /\ arg' = [task_id |-> task_id, success |-> success]
    /\ called_at' = Some(now)
    /\ requests' = requests + 1
    /\ stored_before' = Some(scheduled_reminders)
    /\ UNCHANGED <<now, input, frame, email_service>>

\* the client has taken the answer and clears the input box
Return ==
    /\ op \in {"parse", "schedule", "deadline", "insights", "reminder_minutes",
                "schedule_smart", "schedule_reminder", "get_task_reminders",
                "delete_reminder", "delete_task_reminders", "mark_reminder_sent",
                "configure_email", "send_reminder_email"}
    /\ op' = "idle"
    /\ input' = <<>>
    /\ arg' = <<>>
    /\ called_at' = None
    /\ ret' = None
    /\ stored_before' = None
    /\ UNCHANGED <<now, frame, scheduled_reminders, requests, email_service>>

InsightsNext ==
    \/ \E k \in DOMAIN TaskKinds : AddTask(k)
    \/ CallInsights
    \/ \E passed \in 0..MaxCallTicks : OverdueStep(passed)
    \/ FinishInsights
    \/ Return

RemindersNext ==
    \/ \E p \in PriorityValues : ReminderMinutes(p)
    \/ \E request \in ReminderRequests : ScheduleSmart(request)
    \/ Return

StoreNext ==
    \/ \E request \in SmartRequests : ScheduleSmart(request)
    \/ \E request \in SingleRequests : ScheduleReminder(request)
    \/ \E task_id \in TaskIds : GetTaskReminders(task_id)
    \/ \E id \in ReminderIds : DeleteReminder(id)
    \/ \E task_id \in TaskIds : DeleteTaskReminders(task_id)
    \/ \E id \in ReminderIds : MarkReminderSent(id)
    \/ ConfigureEmail
    \/ \E task_id \in TaskIds, success \in BOOLEAN : SendReminderEmail(task_id, success)
    \/ Return

ParseNext ==
    \/ \E f \in Fragments : Type(f)
    \/ ParseTask
    \/ Return

ScheduleNext ==
    \/ Tick
    \/ \E p \in PriorityValues, tg \in TagLists : ScheduleSuggestions(p, tg)
    \/ Return

DeadlineNext ==
    \/ Tick
    \/ \E task_data \in TaskDatas : DeadlineSuggestions(task_data)
    \/ Return

Next ==
    \/ Tick
    \/ \E f \in Fragments : Type(f)
    \/ ParseTask
    \/ \E p \in PriorityValues, tg \in TagLists : ScheduleSuggestions(p, tg)
    \/ \E task_data \in TaskDatas : DeadlineSuggestions(task_data)
    \/ \E k \in DOMAIN TaskKinds : AddTask(k)
    \/ CallInsights
    \/ \E passed \in 0..MaxCallTicks : OverdueStep(passed)
    \/ FinishInsights
    \/ \E p \in PriorityValues : ReminderMinutes(p)
    \/ \E request \in ReminderRequests : ScheduleSmart(request)
    \/ \E request \in SingleRequests : ScheduleReminder(request)
    \/ \E task_id \in TaskIds : GetTaskReminders(task_id)
    \/ \E id \in ReminderIds : DeleteReminder(id)
    \/ \E task_id \in TaskIds : DeleteTaskReminders(task_id)
    \/ \E id \in ReminderIds : MarkReminderSent(id)
    \/ ConfigureEmail
    \/ \E task_id \in TaskIds, success \in BOOLEAN : SendReminderEmail(task_id, success)
    \/ Return

\* the parser alone
SpecParse == Init /\ [][ParseNext]_vars

\* the schedule suggestions alone, with the clock running
SpecSchedule == Init /\ [][ScheduleNext]_vars

\* the deadline suggestions alone, with the clock running
SpecDeadline == Init /\ [][DeadlineNext]_vars

\* the insight generator alone, with the clock running while it runs
SpecInsights == Init /\ [][InsightsNext]_vars

\* the scheduling of smart reminders alone
SpecReminders == Init /\ [][RemindersNext]_vars

\* the reminder store with every endpoint that reads or changes it
SpecStore == Init /\ [][StoreNext]_vars

Spec == Init /\ [][Next]_vars

(***************************************************************************)
(* Properties of the parser (checked under SpecParse)                      *)
(***************************************************************************)
\* the answer of the last call is a parsed draft
Parsed == op = "parse" /\ ret.code = 200

\* the phrase occurs in the text, in any case
Occurs(phrase, text) == Contains(phrase, Lower(text))

OccursAny(words, text) == \E k \in DOMAIN words : Occurs(words[k], text)

\* the phrase occurs in the text as a whole word, in any case
OccursAsWord(phrase, text) == \E i \in 1..Len(text) : MatchWordAt(phrase, text, i)

RelativePhrases == <<RelToday, RelTomorrow, RelNextWeek, RelNextMonth>>

\* the minutes from the clock reading of the call to the ISO timestamp s
MinutesAfterCall(s) == ToMinutes(fromisoformat(s)) - ToMinutes(called_at[1])

\* C1: the priority is urgent if a word of the urgent group occurs, else high if a word
\* of the high group occurs, else low if a word of the low group occurs, else medium; a
\* text with both "urgent" and "low priority" is urgent.
C1_PriorityPrecedence ==
    Parsed =>
        /\ OccursAny(UrgentWords, arg) => ret.body.priority = "urgent"
        /\ ~OccursAny(UrgentWords, arg) /\ OccursAny(HighWords, arg)
              => ret.body.priority = "high"
        /\ ~OccursAny(UrgentWords, arg) /\ ~OccursAny(HighWords, arg)
              /\ OccursAny(LowWords, arg)
              => ret.body.priority = "low"
        /\ ~OccursAny(UrgentWords, arg) /\ ~OccursAny(HighWords, arg)
              /\ ~OccursAny(LowWords, arg)
              => ret.body.priority = "medium"
        /\ Occurs(UrgentWords[1], arg) /\ Occurs(LowWords[1], arg)
              => ret.body.priority = "urgent"

\* a text with both "urgent" and "low priority" was parsed as urgent
C1_Witness ==
    /\ Parsed
    /\ Occurs(UrgentWords[1], arg)
    /\ Occurs(LowWords[1], arg)
    /\ ret.body.priority = "urgent"

\* the text holds no keyword of the priority, tag, date or duration tables
NoKeyword(text) ==
    /\ ~OccursAny(UrgentWords, text)
    /\ ~OccursAny(HighWords, text)
    /\ ~OccursAny(LowWords, text)
    /\ ~OccursAny(StudyWords, text)
    /\ ~OccursAny(WorkWords, text)
    /\ ~OccursAny(PersonalWords, text)
    /\ ~OccursAny(HealthWords, text)
    /\ ~OccursAny(RelativePhrases, text)
    /\ \A k \in 1..3 : PatternSearch(k, Lower(text)) = None
    /\ \A i \in 1..Len(text) : ~DurationAt(Lower(text), i)

\* the text without its leading and trailing whitespace
Strip(text) ==
    LET inner == {i \in 1..Len(text) : ~IsSpace(text[i])}
    IN  IF inner = {} THEN <<>>
        ELSE SubSeq(text, CHOOSE i \in inner : \A j \in inner : i <= j,
                          CHOOSE i \in inner : \A j \in inner : j <= i)

\* the defaults a text without keywords gets, but for the title
DefaultsButTitle ==
    /\ ret.code = 200
    /\ ret.body.priority = "medium"
    /\ ret.body.tags = <<>>
    /\ ret.body.dueDate = None
    /\ ret.body.estimatedTime = None

\* C2 as stated: a text without keywords gets priority medium, no tags, no due date,
\* no estimated time, and as title the text with only its leading and trailing
\* whitespace removed.
C2_TitleIsTrimmedInput ==
    op = "parse" /\ NoKeyword(arg) =>
        DefaultsButTitle /\ ret.body.title = Strip(arg)

\* C2 as amended: a text without keywords gets priority medium, no tags, no due date,
\* no estimated time, and as title the text with its leading and trailing whitespace
\* removed and every inner run of whitespace replaced by one space; a text that is
\* empty or all whitespace is its own title.
C2_TitleIsNormalisedInput ==
    op = "parse" /\ NoKeyword(arg) =>
        /\ DefaultsButTitle
        /\ Strip(arg) = <<>> => ret.body.title = arg
        /\ Strip(arg) # <<>> =>
              /\ ret.body.title = Join(Split(arg, 1, <<>>))
              /\ \A i \in 1..Len(ret.body.title) :
                    IsSpace(ret.body.title[i]) =>
                        /\ ret.body.title[i] = " "
                        /\ i \in 2..(Len(ret.body.title) - 1)
                        /\ ~IsSpace(ret.body.title[i + 1])

\* a text without keywords was parsed and its title differs from the trimmed text
C2_Witness ==
    /\ Parsed
    /\ NoKeyword(arg)
    /\ Strip(arg) # <<>>
    /\ ret.body.title # Strip(arg)

\* C3: a relative date phrase sets the due date only where it occurs as a whole word:
\* a text in which no relative phrase is a whole word, and no date pattern matches,
\* gets no due date.
C3_RelativePhraseWholeWord ==
    Parsed =>
        ((/\ \A k \in 1..4 : ~OccursAsWord(RelativePhrases[k], arg)
          /\ \A k \in 1..3 : PatternSearch(k, Lower(arg)) = None)
            => ret.body.dueDate = None)

\* the phrases that can set the priority or the relative due date
TriggerPhrases ==
    Range(UrgentWords) \cup Range(HighWords) \cup Range(LowWords) \cup Range(RelativePhrases)

\* C4: every phrase whose presence sets the priority or the relative due date is in
\* the list of the phrases removed from the title.
C4_RemovalCoversTriggers ==
    Parsed =>
        \A phrase \in TriggerPhrases :
            Occurs(phrase, arg) => phrase \in Range(remove_words)

\* C5: the first of today, tomorrow, next week, next month that is present gives the
\* due date (the clock reading plus 0, 1, 7, 30 days), whatever else the text holds;
\* the date patterns count only when none of the four is present.
C5_RelativeOrder ==
    Parsed =>
        LET present(k) == Occurs(RelativePhrases[k], arg)
            days == <<0, 1, 7, 30>>
        IN  \A k \in 1..4 :
                (present(k) /\ \A j \in 1..(k - 1) : ~present(j))
                    => /\ ret.body.dueDate # None
                       /\ MinutesAfterCall(ret.body.dueDate) = 1440 * days[k]

\* a text with "tomorrow" and a date that parses was given the day after the call
C5_Witness ==
    /\ Parsed
    /\ Occurs(RelTomorrow, arg)
    /\ ~Occurs(RelToday, arg)
    /\ \E k \in 1..3 :
          /\ PatternSearch(k, Lower(arg)) # None
          /\ dateutil_parse(k, PatternSearch(k, Lower(arg)), called_at[1]).ok
    /\ MinutesAfterCall(ret.body.dueDate) = 1440

\* the match of pattern k in the text parses into a date
Parses(k, text) ==
    /\ PatternSearch(k, Lower(text)) # None
    /\ dateutil_parse(k, PatternSearch(k, Lower(text)), called_at[1]).ok

\* C6: no date pattern makes the parser fail; without a relative phrase, the due date
\* is the date of the first pattern (slash, ISO, month name) whose match parses, and
\* absent when no pattern has a match that parses.
C6_DatePatterns ==
    op = "parse" =>
        /\ ret.code = 200
        /\ ~OccursAny(RelativePhrases, arg) =>
              /\ (\A k \in 1..3 : ~Parses(k, arg)) => ret.body.dueDate = None
              /\ \A k \in 1..3 :
                    (Parses(k, arg) /\ \A j \in 1..(k - 1) : ~Parses(j, arg))
                        => ret.body.dueDate =
                              isoformat(dateutil_parse(k, PatternSearch(k, Lower(arg)),
                                                       called_at[1]).value)

\* the slash and the ISO pattern matched dates that do not exist, the month-name
\* pattern gave the due date
C6_Witness ==
    /\ Parsed
    /\ ~OccursAny(RelativePhrases, arg)
    /\ PatternSearch(1, Lower(arg)) # None /\ ~Parses(1, arg)
    /\ PatternSearch(2, Lower(arg)) # None /\ ~Parses(2, arg)
    /\ Parses(3, arg)
    /\ ret.body.dueDate # None

TagOrder == <<"study", "work", "personal", "health">>

TagWords == <<StudyWords, WorkWords, PersonalWords, HealthWords>>

\* C7: a tag is in the result exactly when a keyword of its group occurs in the text,
\* whatever the other tags and the priority are; the tags come in the order study,
\* work, personal, health, none twice.
C7_TagsIndependent ==
    Parsed =>
        /\ \A g \in 1..4 :
              (TagOrder[g] \in Range(ret.body.tags)) <=> OccursAny(TagWords[g], arg)
        /\ \A i, j \in 1..Len(ret.body.tags) :
              i < j => \E g, h \in 1..4 :
                          /\ g < h
                          /\ ret.body.tags[i] = TagOrder[g]
                          /\ ret.body.tags[j] = TagOrder[h]

\* a text with an urgent word got three tags
C7_Witness ==
    /\ Parsed
    /\ ret.body.priority = "urgent"
    /\ ret.body.tags = <<"study", "work", "personal">>

\* the phrases of the removal list that are one word, and those that are two
OneWordPhrases ==
    << <<"u","r","g","e","n","t">>, <<"a","s","a","p">>, <<"t","o","d","a","y">>,
       <<"t","o","m","o","r","r","o","w">>, <<"i","m","p","o","r","t","a","n","t">>,
       <<"c","r","i","t","i","c","a","l">> >>

TwoWordPhrases ==
    << <<"h","i","g","h"," ","p","r","i","o","r","i","t","y">>,
       <<"l","o","w"," ","p","r","i","o","r","i","t","y">>,
       <<"n","e","x","t"," ","w","e","e","k">>,
       <<"n","e","x","t"," ","m","o","n","t","h">> >>

RemovalPhrases == OneWordPhrases \o TwoWordPhrases

\* words with single spaces between them, no whitespace at either end, not empty
SingleSpaced(t) ==
    /\ t # <<>>
    /\ ~IsSpace(t[1]) /\ ~IsSpace(t[Len(t)])
    /\ \A i \in 1..Len(t) : IsSpace(t[i]) => t[i] = " " /\ ~IsSpace(t[i + 1])

\* no phrase of the list occurs in t as a whole word, in any case
FreeOf(phrases, t) == \A k \in DOMAIN phrases : ~OccursAsWord(phrases[k], t)

\* the title is the input as it is, and nothing but whitespace is left of the input
\* when every whole-word occurrence of a phrase of the list is taken out of it
FellBack ==
    /\ ret.body.title = arg
    /\ \A i \in 1..Len(arg) :
          IsSpace(arg[i])
          \/ \E k \in DOMAIN RemovalPhrases, j \in 1..i :
                MatchWordAt(RemovalPhrases[k], arg, j) /\ i < j + Len(RemovalPhrases[k])

GenRank(sg) ==
    IF sg.reason = "Study tasks are best done in the morning when mind is fresh" THEN 2
    ELSE IF sg.reason = "Work tasks fit best during standard working hours" THEN 3
    ELSE 1

\* C8: there are 1 to 3 suggestions, by descending score, those of equal score in the
\* order of generation (priority, study, work).
C8_ScheduleOrder ==
    op = "schedule" =>
        /\ Len(ret.body) \in 1..3
        /\ \A i, j \in 1..Len(ret.body) :
              i < j =>
                  \/ ret.body[i].score > ret.body[j].score
                  \/ /\ ret.body[i].score = ret.body[j].score
                     /\ GenRank(ret.body[i]) < GenRank(ret.body[j])

\* three suggestions, the candidate of the priority moved behind those of the tags
C8_Witness ==
    /\ op = "schedule"
    /\ Len(ret.body) = 3
    /\ GenRank(ret.body[3]) = 1

\* the suggestion with the rank of generation r is h:00 of the day of the call if that
\* is not before the call, h:00 of the next day if it is; it is not before the call
\* and less than 24 hours after it
SlotRule(r, h) ==
    \A i \in 1..Len(ret.body) :
        GenRank(ret.body[i]) = r =>
            LET t     == called_at[1]
                today == DateTime(t.year, t.month, t.day, h, 0)
                late  == ToMinutes(today) < ToMinutes(t)
                at    == MinutesAfterCall(ret.body[i].time)
            IN  /\ ~late => ret.body[i].time = isoformat(today)
                /\ late => ToMinutes(fromisoformat(ret.body[i].time)) = ToMinutes(today) + 1440
                /\ at >= 0
                /\ at < 1440

\* C9: the study candidate is today 09:00 if that has not passed and tomorrow 09:00 if
\* it has, the work candidate the same at 10:00; the slot is never before now and less
\* than 24 hours after now.
C9_SlotRollover ==
    op = "schedule" => SlotRule(2, 9) /\ SlotRule(3, 10)

\* a study task asked for after 09:00 got the slot of the next day
C9_Witness ==
    /\ op = "schedule"
    /\ called_at[1].hour >= 9 /\ called_at[1].minute > 0
    /\ \E i \in 1..Len(ret.body) :
          /\ GenRank(ret.body[i]) = 2
          /\ fromisoformat(ret.body[i].time).day # called_at[1].day

(***************************************************************************)
(* Properties of the deadline suggestions (checked under SpecDeadline)     *)
(***************************************************************************)
\* the rows of the table: minutes after now and confidence of the two suggestions
DeadlineRows(p) ==
    IF p = "urgent" THEN <<<<0, 95>>, <<240, 90>>>>
    ELSE IF p = "high" THEN <<<<1440, 90>>, <<2880, 85>>>>
    ELSE IF p = "medium" THEN <<<<4320, 85>>, <<10080, 80>>>>
    ELSE <<<<10080, 75>>, <<20160, 70>>>>

\* C10: every request is answered with exactly 2 suggestions, the earlier first, with
\* the dates and confidences of the row of its priority (the low row for a priority
\* that is not recognized); no request fails.  (The dates are taken as the row says
\* wherever the duration asks for no shift.)
C10_TwoFromTable ==
    op = "deadline" =>
        /\ ret.code = 200
        /\ Len(ret.body) = 2
        /\ MinutesAfterCall(ret.body[1].date) < MinutesAfterCall(ret.body[2].date)
        /\ \A i \in 1..2 :
              LET row == DeadlineRows(Get(arg, "priority", "medium"))[i]
              IN  /\ ret.body[i].confidence = row[2]
                  /\ Get(arg, "estimatedTime", Some(60))[1] <= 240
                        => MinutesAfterCall(ret.body[i].date) = row[1]

\* the estimated duration of the request, 60 where the key is missing
EstimatedOf(task_data) == Get(task_data, "estimatedTime", Some(60))

\* the table of the priority of the request at the instant of the call
TableOfCall == deadline_table(Get(arg, "priority", "medium"), called_at[1])

\* C11: with an estimated duration above 240 minutes both dates are exactly 2 days
\* later than the table says and both reasons end with the suffix
\* " (Complex task requires extra time)"; with 240 or less the suggestions are exactly
\* those of the table.
C11_ComplexPush ==
    (op = "deadline" /\ EstimatedOf(arg) # None) =>
        \A i \in 1..2 :
            LET row == TableOfCall[i]
                sg  == ret.body[i]
            IN  IF EstimatedOf(arg)[1] > 240
                THEN /\ MinutesAfterCall(sg.date)
                            = DeadlineRows(Get(arg, "priority", "medium"))[i][1] + 2 * 1440
                     /\ fromisoformat(sg.date) = AddDays(fromisoformat(row.date), 2)
                     /\ sg.reason = row.reason \o <<ComplexSuffix>>
                     /\ sg.label = row.label /\ sg.confidence = row.confidence
                ELSE sg = row

\* a request with 241 minutes was answered
C11_Witness ==
    /\ op = "deadline"
    /\ EstimatedOf(arg) = Some(241)
    /\ ret.body[1].reason[Len(ret.body[1].reason)] = ComplexSuffix

Kinds == [i \in 1..Len(ret.body) |-> ret.body[i].type]

\* the insights of one kind in the answer
OfKind(kind) == SelectSeq(ret.body, LAMBDA x : x.type = kind)

\* the positions of the collection whose task is completed
Done == {i \in 1..Len(arg) : arg[i].status = "completed"}

\* the positions of the collection whose task is not completed and has no due date
Undated == {i \in 1..Len(arg) : arg[i].status # "completed" /\ arg[i].dueDate = None}

\* the positions of the collection whose task is not completed and due strictly
\* before the instant t
PastDue(t) ==
    {i \in 1..Len(arg) :
        /\ arg[i].status # "completed"
        /\ arg[i].dueDate # None
        /\ ToMinutes(fromisoformat(arg[i].dueDate)) < ToMinutes(t)}

\* C14: for an empty collection generate_insights returns an empty sequence; the
\* completion ratio is computed only for a collection that is not empty, so no call
\* ends in a division by zero.
C14_EmptyGivesNothing ==
    op = "insights" =>
        /\ ret.code = 200
        /\ arg = <<>> => ret.body = <<>>

\* generate_insights has answered for the empty collection
C14_Witness ==
    /\ op = "insights"
    /\ arg = <<>>
    /\ ret.code = 200

\* C15: the overdue warning is there exactly when at least one task is due strictly
\* before now and not completed, and the number of its message is the count of
\* those tasks; a completed task, a task without due date and a task due at now or
\* later are never counted.  (now is the instant the call reads first.)
C15_OverdueCount ==
    (op = "insights" /\ called_at # None) =>
        LET n == Cardinality(PastDue(called_at[1]))
        IN  /\ Len(OfKind("warning")) = (IF n > 0 THEN 1 ELSE 0)
            /\ n > 0 => ToInt(OfKind("warning")[1].message[2]) = n

\* C16: the tip is there exactly when the collection is not empty and more than 0.8
\* of its tasks are completed (4 of 5 give no tip); its percentage is the ratio
\* times 100, cut to an integer.
C16_TipAboveFourFifths ==
    op = "insights" =>
        LET total == Len(arg)
            c     == Cardinality(Done)
        IN  /\ Len(OfKind("tip")) = (IF total > 0 /\ 5 * c > 4 * total THEN 1 ELSE 0)
            /\ OfKind("tip") # <<>> =>
                  LET pct == ToInt(OfKind("tip")[1].message[2])
                  IN  pct * total <= 100 * c /\ 100 * c < (pct + 1) * total

\* a tip whose percentage was cut: 5 of 6 tasks completed give 83%
C16_Witness ==
    /\ op = "insights"
    /\ Len(arg) = 6
    /\ Cardinality(Done) = 5
    /\ OfKind("tip") # <<>>
    /\ OfKind("tip")[1].message[2] = <<"8", "3">>

KindRank(kind) == IF kind = "warning" THEN 1 ELSE IF kind = "suggestion" THEN 2 ELSE 3

\* C17: at most 3 insights come back, at most one of each kind, in the order
\* warning, suggestion, tip; the suggestion only when more than 5 tasks that are not
\* completed have no due date; 10 tasks of which 9 are completed and the other one
\* is past due give exactly a warning and then a tip.
C17_AtMostOneOfEach ==
    op = "insights" =>
        /\ Len(ret.body) <= 3
        /\ \A i \in 1..Len(ret.body) : ret.body[i].type \in {"warning", "suggestion", "tip"}
        /\ \A i, j \in 1..Len(ret.body) :
              i < j => KindRank(ret.body[i].type) < KindRank(ret.body[j].type)
        /\ OfKind("suggestion") # <<>> => Cardinality(Undated) > 5
        /\ (Len(arg) = 10 /\ Cardinality(Done) = 9 /\ Cardinality(PastDue(Epoch)) = 1)
              => Kinds = <<"warning", "tip">>

\* the 10 tasks of the claim were answered
C17_Witness ==
    /\ op = "insights"
    /\ Len(arg) = 10
    /\ Cardinality(Done) = 9
    /\ Cardinality(PastDue(Epoch)) = 1
    /\ Kinds = <<"warning", "tip">>

\* C18: every operation of the engine reads the current time once per call and
\* uses that one value throughout; when the clock advances while generate_insights
\* runs, every due date is still compared against the same instant.
C18_OneReadingPerCall ==
    Len(called_at) <= 1

(***************************************************************************)
(* Properties of the reminders (checked under SpecReminders)               *)
(***************************************************************************)
\* the offsets the claims give for a priority
OffsetsOf(p) ==
    IF p = "urgent" THEN <<5, 15, 60>>
    ELSE IF p = "high" THEN <<15, 60, 240>>
    ELSE IF p = "medium" THEN <<30, 120, 1440>>
    ELSE IF p = "low" THEN <<60, 1440>>
    ELSE <<30, 120, 1440>>

\* C13: calculate_smart_reminder_minutes gives [5, 15, 60] for urgent, [15, 60, 240]
\* for high, [30, 120, 1440] for medium, [60, 1440] for low and the list of medium
\* for every other priority; it never fails.
C13_ReminderMinutes ==
    op = "reminder_minutes" =>
        /\ ret.code = 200
        /\ ret.body = OffsetsOf(arg)

\* a priority that the table does not have was asked for
C13_Witness ==
    /\ op = "reminder_minutes"
    /\ arg \notin {"urgent", "high", "medium", "low"}
    /\ ret.body = <<30, 120, 1440>>

\* the id is the task id, a hyphen and the offset
IsIdOf(id, taskId, offset) ==
    /\ Len(id) >= Len(taskId) + 2
    /\ SubSeq(id, 1, Len(taskId)) = taskId
    /\ id[Len(taskId) + 1] = "-"
    /\ ToInt(SubSeq(id, Len(taskId) + 2, Len(id))) = offset

\* the call stored and returned one reminder per offset of the priority of the
\* request
StoredPerOffset(before, after, request, answer) ==
    LET offsets == OffsetsOf(request.priority)
        due     == ToMinutes(fromisoformat(request.dueDate))
    IN  /\ answer.code = 200
        /\ answer.body.count = Len(offsets)
        /\ Len(answer.body.reminders) = Len(offsets)
        /\ \A i \in 1..Len(offsets) :
              LET r == answer.body.reminders[i]
              IN  /\ IsIdOf(r.id, request.taskId, offsets[i])
                  /\ r.taskId = request.taskId
                  /\ ToMinutes(fromisoformat(r.reminderTime)) = due - offsets[i]
                  /\ r.sent = FALSE
                  /\ r.id \in DOMAIN after
                  /\ after[r.id] = r
        /\ DOMAIN after = DOMAIN before
                            \cup {answer.body.reminders[i].id : i \in 1..Len(offsets)}
        /\ Cardinality({answer.body.reminders[i].id : i \in 1..Len(offsets)})
              = Len(offsets)
        /\ \A id \in DOMAIN before :
              (\A i \in 1..Len(offsets) : answer.body.reminders[i].id # id)
                  => after[id] = before[id]

\* the call answered 400 and changed nothing
Refused(before, after, answer) ==
    /\ answer.code = 400
    /\ after = before

\* a step that is a call of schedule_smart_reminders
IsScheduleSmart == op = "idle" /\ op' = "schedule_smart"

\* C20 as it is claimed: with a valid due date schedule_smart_reminders stores and
\* returns exactly one reminder per offset of the table of the priority (3 for
\* urgent, high, medium and a priority it does not know, 2 for low), each with the
\* id taskId-offset, the reminder time due date minus offset and sent false; with a
\* due date that cannot be parsed it answers 400 and leaves the store as it is.
C20_OnePerOffset ==
    [][IsScheduleSmart =>
          IF IsIsoFormat(arg'.dueDate)
          THEN StoredPerOffset(scheduled_reminders, scheduled_reminders', arg', ret')
          ELSE Refused(scheduled_reminders, scheduled_reminders', ret')]_vars

\* the minutes from 0001-01-01T00:00 to the due date of a request
SinceFirstInstant(request) == ToMinutes(fromisoformat(request.dueDate))

\* C20, amended: the same for a valid due date that lies at least the largest offset
\* of the table after 0001-01-01T00:00; for a valid due date closer to that instant
\* the call answers 400, having stored the reminders of the offsets before the
\* first one that is too large; with a due date that cannot be parsed it answers
\* 400 and leaves the store as it is.
C20_OnePerOffsetInRange ==
    [][IsScheduleSmart =>
          LET offsets == OffsetsOf(arg'.priority)
          IN  IF ~IsIsoFormat(arg'.dueDate)
              THEN Refused(scheduled_reminders, scheduled_reminders', ret')
              ELSE IF SinceFirstInstant(arg') >= offsets[Len(offsets)]
              THEN StoredPerOffset(scheduled_reminders, scheduled_reminders', arg', ret')
              ELSE /\ ret'.code = 400
                   /\ \A i \in 1..Len(offsets) :
                         (\A j \in 1..i : offsets[j] <= SinceFirstInstant(arg'))
                             => \E id \in DOMAIN scheduled_reminders' :
                                   /\ IsIdOf(id, arg'.taskId, offsets[i])
                                   /\ scheduled_reminders'[id].sent = FALSE
                                   /\ ToMinutes(fromisoformat(
                                          scheduled_reminders'[id].reminderTime))
                                         = SinceFirstInstant(arg') - offsets[i]]_vars

\* three reminders were stored for a task of a priority the table does not have
C20_Witness ==
    /\ op = "schedule_smart"
    /\ arg.priority = "someday"
    /\ ret.code = 200
    /\ ret.body.count = 3
    /\ \A i \in 1..3 : ret.body.reminders[i].id \in DOMAIN scheduled_reminders

(***************************************************************************)
(* Properties of the reminder store (checked under SpecStore)               *)
(***************************************************************************)

\* the offsets a reminder is scheduled with
Offsets == {5, 15, 30, 60, 120, 240, 1440}

\* the stored records of a task and an offset
RecordsOf(store, taskId, offset) ==
    {k \in DOMAIN store : store[k].taskId = taskId /\ IsIdOf(store[k].id, taskId, offset)}

\* at most one record per task and offset, every record under its id
OnePerPair(store) ==
    /\ \A k \in DOMAIN store : store[k].id = k
    /\ \A taskId \in TaskIds, offset \in Offsets :
          Cardinality(RecordsOf(store, taskId, offset)) <= 1

\* a record as a scheduling call leaves it
Fresh(r) == r.sent = FALSE /\ r.sentAt = None

\* this is the answer to a call that schedules
IsScheduling == op \in {"schedule_reminder", "schedule_smart"}

\* the reminders a scheduling call that answered 200 says it stored
Scheduled ==
    IF op = "schedule_reminder" THEN {ret.body.reminder}
    ELSE {ret.body.reminders[i] : i \in DOMAIN ret.body.reminders}

\* the call put a fresh record in the place of every record it scheduled again and
\* added a record only for a pair that was not stored
ReplacedByFresh(before, after) ==
    /\ \A r \in Scheduled : r.id \in DOMAIN after /\ after[r.id] = r /\ Fresh(r)
    /\ \A id \in DOMAIN before : id \in DOMAIN after
    /\ Cardinality(DOMAIN after)
          = Cardinality(DOMAIN before)
              + Cardinality({r.id : r \in Scheduled} \ DOMAIN before)
    /\ ({r.id : r \in Scheduled} \subseteq DOMAIN before
            => Cardinality(DOMAIN after) = Cardinality(DOMAIN before))

\* C21: whatever was called, the store holds at most one record per task and
\* offset and every record is stored under its id; a scheduling call that says it
\* stored a reminder has left a fresh record (sent false, sentAt empty) for each
\* pair it scheduled, also in the place of a record that was marked sent, and the
\* number of stored reminders has grown only by the pairs that were not stored.
C21_OneFreshRecordPerPair ==
    /\ OnePerPair(scheduled_reminders)
    /\ (IsScheduling /\ ret.code = 200)
          => ReplacedByFresh(stored_before[1], scheduled_reminders)

\* a call scheduled a pair again whose record was marked sent, and the store is as
\* large as it was
C21_Witness ==
    /\ IsScheduling /\ ret.code = 200
    /\ \E r \in Scheduled :
          /\ r.id \in DOMAIN stored_before[1]
          /\ stored_before[1][r.id].sent = TRUE
          /\ stored_before[1][r.id].sentAt # None
          /\ scheduled_reminders[r.id].sent = FALSE
    /\ Cardinality(DOMAIN scheduled_reminders) = Cardinality(DOMAIN stored_before[1])
    /\ Cardinality(DOMAIN scheduled_reminders) >= 2

\* the notification types send_reminder_email marks
EmailTypes == {"email", "all"}

\* the record is the record r marked sent, and nothing else about it has changed
MarkedSent(r, marked) ==
    /\ marked.sent = TRUE
    /\ marked.sentAt # None
    /\ [marked EXCEPT !.sent = r.sent, !.sentAt = r.sentAt] = r

\* the reminders of the task that go out by email are marked sent and every other
\* stored reminder is as it was
OnlyEmailOfTaskSent(before, after, task_id) ==
    /\ DOMAIN after = DOMAIN before
    /\ \A id \in DOMAIN before :
          IF before[id].taskId = task_id /\ before[id].notificationType \in EmailTypes
          THEN MarkedSent(before[id], after[id])
          ELSE after[id] = before[id]

\* C22: send_reminder_email without a configured email service, or with a send
\* that fails, answers with an error and leaves every stored reminder as it was;
\* after a send that succeeds exactly the stored reminders of the task whose
\* notification type is email or all are sent, and the reminders of other tasks
\* and of the types browser and sound are unchanged.
C22_SentOnlyOnSuccess ==
    op = "send_reminder_email"
        => IF email_service # None /\ arg.success
           THEN /\ ret.code = 200
                /\ OnlyEmailOfTaskSent(stored_before[1], scheduled_reminders,
                                       arg.task_id)
           ELSE /\ ret.code >= 400
                /\ scheduled_reminders = stored_before[1]

\* an email went out for a task that has a reminder for email and one for the
\* browser, while another task has a reminder for email too
C22_Witness ==
    /\ op = "send_reminder_email"
    /\ ret.code = 200
    /\ \E a, b, c \in DOMAIN scheduled_reminders :
          /\ stored_before[1][a].taskId = arg.task_id
          /\ stored_before[1][a].notificationType \in EmailTypes
          /\ stored_before[1][a].sent = FALSE
          /\ scheduled_reminders[a].sent = TRUE
          /\ stored_before[1][b].taskId = arg.task_id
          /\ stored_before[1][b].notificationType = "browser"
          /\ scheduled_reminders[b].sent = FALSE
          /\ stored_before[1][c].taskId # arg.task_id
          /\ stored_before[1][c].notificationType \in EmailTypes
          /\ scheduled_reminders[c].sent = FALSE

\* the ids of the stored reminders of a task
IdsOfTask(store, task_id) == {id \in DOMAIN store : store[id].taskId = task_id}

\* the reminders of the task are gone and the others are as they were
OnlyTaskRemoved(before, after, task_id) ==
    /\ DOMAIN after = DOMAIN before \ IdsOfTask(before, task_id)
    /\ \A id \in DOMAIN after : after[id] = before[id]

\* this is the answer to a call that names a reminder by its id
IsById == op \in {"delete_reminder", "mark_reminder_sent"}

\* C23: delete_task_reminders(t) removes the stored reminders whose taskId is t
\* and no other, answers with their number as deleted_count and leaves the
\* reminders of every other task as they were, and get_task_reminders(t) on the
\* store it leaves gives count 0; delete_reminder and mark_reminder_sent with an
\* id that is not stored answer 404 and leave the store as it was.
C23_DeleteTaskFrame ==
    /\ op = "delete_task_reminders"
          => /\ ret.code = 200
             /\ OnlyTaskRemoved(stored_before[1], scheduled_reminders, arg)
             /\ ret.body.deleted_count
                   = Cardinality(IdsOfTask(stored_before[1], arg))
             /\ get_task_reminders(arg, scheduled_reminders).body.count = 0
    /\ (IsById /\ arg \notin DOMAIN stored_before[1])
          => /\ ret.code = 404
             /\ scheduled_reminders = stored_before[1]

\* the reminders of a task were deleted, more than one, and a reminder of another
\* task that was marked sent is left
C23_Witness ==
    /\ op = "delete_task_reminders"
    /\ ret.body.deleted_count >= 2
    /\ \E id \in DOMAIN scheduled_reminders :
          /\ scheduled_reminders[id].taskId # arg
          /\ scheduled_reminders[id].sent = TRUE

====
